---- MODULE Spec2Model ----
(***************************************************************************)
(* The SSA pass's program-level consumers                                  *)
(* (compiler/passes/src/static_single_assignment/rename_program.rs):       *)
(* consume_struct, consume_function, consume_program_scope and             *)
(* consume_program of StaticSingleAssigner, as one state machine.  The     *)
(* recursion of consume_program is an explicit call stack; every handler   *)
(* is cut at its calls so that the states "while a body is being renamed"  *)
(* exist.                                                                  *)
(***************************************************************************)
EXTENDS Naturals, Sequences, FiniteSets, TLC

VARIABLES
    input,         \* the Program handed to the outermost consume_program
    call_stack,    \* activations of consume_program, outermost first
    scope_act,     \* <<>> or <<activation of consume_program_scope>>
    fn_act,        \* <<>> or <<activation of consume_function>>
    block_stack,   \* activations of consume_block, outermost first
    rename_table,  \* self.rename_table: the frames, innermost last
    counter,       \* the renamer's supply of fresh names
    output,        \* <<>> or <<the Program returned by the outermost call>>
    panic          \* <<>> or <<the payload of the panic that ended the pass>>

vars == <<input, call_stack, scope_act, fn_act, block_stack, rename_table,
          counter, output, panic>>

(***************************************************************************)
(* Bounds of the enumerated inputs.                                        *)
(***************************************************************************)
MaxMembers == 4
MaxInputs == 2

\* Option<T>: None is <<>>, Some(v) is <<v>>.
None == <<>>
Some(v) == <<v>>

Last(s) == s[Len(s)]
Front(s) == SubSeq(s, 1, Len(s) - 1)

(***************************************************************************)
(* indexmap::IndexMap, as the sequence of its (key, value) entries in      *)
(* iteration order.                                                        *)
(***************************************************************************)
IndexOf(map, key) ==
    IF \E i \in 1..Len(map) : map[i][1] = key
    THEN CHOOSE i \in 1..Len(map) : map[i][1] = key
    ELSE 0

\* IndexMap::insert: a new key is appended, a known key keeps its place and
\* takes the new value.
insert(map, key, value) ==
    LET i == IndexOf(map, key)
    IN  IF i = 0 THEN Append(map, <<key, value>>)
        ELSE [map EXCEPT ![i] = <<key, value>>]

\* .into_iter().map(|member| (member.identifier.name, member)).collect()
RECURSIVE collect(_, _)
collect(map, members) ==
    IF members = <<>> THEN map
    ELSE collect(insert(map, Head(members).identifier, Head(members)),
                 Tail(members))

\* IndexMap::remove is swap_remove: the last entry takes the place of the
\* removed one.
remove(map, key) ==
    LET i == IndexOf(map, key)
        n == Len(map)
    IN  IF i = 0 THEN [value |-> None, map |-> map]
        ELSE [value |-> Some(map[i][2]),
              map |-> [j \in 1..(n - 1) |-> IF j = i THEN map[n] ELSE map[j]]]

\* member_map.into_iter().map(|(_, member)| member)
values(map) == [j \in 1..Len(map) |-> map[j][2]]

(***************************************************************************)
(* consume_struct.  The result is Ok(struct) or the panic of               *)
(* Option::unwrap, whose message is fixed text with no symbol of the       *)
(* program in it.                                                          *)
(***************************************************************************)
UnwrapNone ==
    [message |-> "called Option::unwrap() on a None value", symbols |-> {}]

Ok(v) == [ok |-> TRUE, value |-> Some(v), panic |-> None]
Panicked(p) == [ok |-> FALSE, value |-> None, panic |-> Some(p)]

\* Variant: gates is taken and pushed before owner.
consume_struct_gates_first(struct_) ==
    IF ~struct_.is_record THEN Ok(struct_)
    ELSE
        LET member_map == collect(<<>>, struct_.members)
            g == remove(member_map, "gates")
        IN  IF g.value = None THEN Panicked(UnwrapNone)
            ELSE
                LET o == remove(g.map, "owner")
                IN  IF o.value = None THEN Panicked(UnwrapNone)
                    ELSE Ok([struct_ EXCEPT !.members =
                                <<g.value[1], o.value[1]>> \o values(o.map)])

\* Variant: the reordering is applied without the match on is_record.
consume_struct_always(struct_) ==
    LET member_map == collect(<<>>, struct_.members)
        o == remove(member_map, "owner")
        g == remove(o.map, "gates")
    IN  IF o.value = None \/ g.value = None THEN Ok(struct_)
        ELSE Ok([struct_ EXCEPT !.members =
                    <<o.value[1], g.value[1]>> \o values(g.map)])

consume_struct(struct_) ==
    IF ~struct_.is_record THEN Ok(struct_)
    ELSE
        LET member_map == collect(<<>>, struct_.members)
            o == remove(member_map, "owner")
        IN  IF o.value = None THEN Panicked(UnwrapNone)
            ELSE
                LET g == remove(o.map, "gates")
                IN  IF g.value = None THEN Panicked(UnwrapNone)
                    ELSE Ok([struct_ EXCEPT !.members =
                                <<o.value[1], g.value[1]>> \o values(g.map)])

(***************************************************************************)
(* The rename table: a stack of frames.  A frame's mapping is the set of   *)
(* its (original symbol, resolved symbol) bindings, one per original       *)
(* symbol.  A frame's scope is a history label, the scope that pushed it;  *)
(* no operation reads it.                                                  *)
(***************************************************************************)
push(table, scope) == Append(table, [mapping |-> {}, scope |-> scope])

pop(table) == IF table = <<>> THEN table ELSE Front(table)

update(table, symbol, new_symbol) ==
    IF table = <<>> THEN table
    ELSE [table EXCEPT ![Len(table)].mapping =
            {b \in @ : b[1] # symbol} \cup {<<symbol, new_symbol>>}]

RECURSIVE lookup(_, _)
lookup(table, symbol) ==
    IF table = <<>> THEN None
    ELSE IF \E b \in Last(table).mapping : b[1] = symbol
         THEN Some((CHOOSE b \in Last(table).mapping : b[1] = symbol)[2])
         ELSE lookup(Front(table), symbol)

\* The fresh name of a new SSA version of `symbol`.
unique_symbol(symbol, n) == symbol \o "$" \o ToString(n)

UnresolvedSymbol(symbol, function) ==
    [message |-> "unresolved symbol", symbols |-> {symbol, function}]

(***************************************************************************)
(* Activations.                                                            *)
(***************************************************************************)
ProgramActivation(program, table) ==
    [program |-> program, imports_out |-> <<>>, scopes_out |-> <<>>,
     entry_table |-> table]

ScopeActivation(scope) ==
    [scope |-> scope, structs_out |-> <<>>, functions_out |-> <<>>]

FunctionActivation(function, table) ==
    [function |-> function, pc |-> "inputs", k |-> 0, block |-> None,
     finalize_block |-> None, entry_table |-> table]

BlockActivation(statements, value) ==
    [todo |-> statements, out |-> <<>>, value |-> value]

top == Last(call_stack)
scope == scope_act[1]
fn == fn_act[1]
blk == Last(block_stack)

Running == panic = None /\ output = None

InFunction(pcs) == Running /\ fn_act # None /\ fn.pc \in pcs

Scope(phase) ==
    [program |-> scope.scope.program_id, function |-> fn.function.identifier,
     phase |-> phase]

\* A panic unwinds the pass: every activation is dropped, nothing is returned.
Unwind(payload) ==
    /\ panic' = Some(payload)
    /\ call_stack' = <<>>
    /\ scope_act' = None
    /\ fn_act' = None
    /\ block_stack' = <<>>
    /\ UNCHANGED <<input, rename_table, counter, output>>

(***************************************************************************)
(* consume_program: the fields of the Program expression are evaluated in  *)
(* the order written, imports before program_scopes.                       *)
(***************************************************************************)
\* Variant: program_scopes evaluated before imports.
program_step_scopes_first(a) ==
    IF Len(a.scopes_out) < Len(a.program.program_scopes) THEN "scope"
    ELSE IF Len(a.imports_out) < Len(a.program.imports) THEN "import"
    ELSE "return"

program_step(a) ==
    IF Len(a.imports_out) < Len(a.program.imports) THEN "import"
    ELSE IF Len(a.scopes_out) < Len(a.program.program_scopes) THEN "scope"
    ELSE "return"

AtProgram(step) ==
    /\ Running
    /\ call_stack # <<>>
    /\ scope_act = None
    /\ program_step(top) = step

\* self.consume_program(import) for the next import
ProgramImport ==
    /\ AtProgram("import")
    /\ call_stack' = Append(call_stack,
          ProgramActivation(top.program.imports[Len(top.imports_out) + 1][2],
                            rename_table))
    /\ UNCHANGED <<input, scope_act, fn_act, block_stack, rename_table,
                   counter, output, panic>>

\* self.consume_program_scope(scope) for the next scope
ProgramScopeCall ==
    /\ AtProgram("scope")
    /\ scope_act' = Some(ScopeActivation(
          top.program.program_scopes[Len(top.scopes_out) + 1][2]))
    /\ UNCHANGED <<input, call_stack, fn_act, block_stack, rename_table,
                   counter, output, panic>>

ProgramOutput(a) ==
    [imports |-> a.imports_out, program_scopes |-> a.scopes_out]

\* the Program is built and returned, to the importer or to the caller
ProgramReturn ==
    /\ AtProgram("return")
    /\ IF Len(call_stack) = 1
       THEN /\ output' = Some(ProgramOutput(top))
            /\ call_stack' = <<>>
       ELSE LET d == Len(call_stack) - 1
                importer == call_stack[d]
                name == importer.program.imports[Len(importer.imports_out) + 1][1]
            IN  /\ call_stack' = [Front(call_stack) EXCEPT ![d].imports_out =
                                    Append(@, <<name, ProgramOutput(top)>>)]
                /\ output' = output
    /\ UNCHANGED <<input, scope_act, fn_act, block_stack, rename_table,
                   counter, panic>>

(***************************************************************************)
(* consume_program_scope: structs, then functions, each in map order.      *)
(***************************************************************************)
scope_step(s) ==
    IF Len(s.structs_out) < Len(s.scope.structs) THEN "struct"
    ELSE IF Len(s.functions_out) < Len(s.scope.functions) THEN "function"
    ELSE "return"

AtScope(step) ==
    /\ Running
    /\ scope_act # None
    /\ fn_act = None
    /\ scope_step(scope) = step

\* (i, self.consume_struct(s)) for the next struct
ScopeStruct ==
    /\ AtScope("struct")
    /\ LET entry == scope.scope.structs[Len(scope.structs_out) + 1]
           r == consume_struct(entry[2])
       IN  IF r.ok
           THEN /\ scope_act' = Some([scope EXCEPT !.structs_out =
                                        Append(@, <<entry[1], r.value[1]>>)])
                /\ UNCHANGED <<input, call_stack, fn_act, block_stack,
                               rename_table, counter, output, panic>>
           ELSE Unwind(r.panic[1])

ProgramScopeOutput(s) ==
    [program_id |-> s.scope.program_id,
     structs |-> s.structs_out,
     mappings |-> s.scope.mappings,
     functions |-> s.functions_out,
     span |-> s.scope.span]

\* the ProgramScope is built and returned to consume_program
ProgramScopeReturn ==
    /\ AtScope("return")
    /\ LET d == Len(call_stack)
           name == top.program.program_scopes[Len(top.scopes_out) + 1][1]
       IN  call_stack' = [call_stack EXCEPT ![d].scopes_out =
                            Append(@, <<name, ProgramScopeOutput(scope)>>)]
    /\ scope_act' = None
    /\ UNCHANGED <<input, fn_act, block_stack, rename_table, counter, output,
                   panic>>

(***************************************************************************)
(* consume_function.                                                       *)
(***************************************************************************)
SetFn(f) == fn_act' = Some(f)

\* self.rename_table.update(name, name) for one input
\* Variant: an input is registered under a fresh name instead of its own.
register_input_renamed(table, input_variable) ==
    update(table, input_variable.identifier,
           unique_symbol(input_variable.identifier, 0))

register_input(table, input_variable) ==
    update(table, input_variable.identifier, input_variable.identifier)

\* the call, and self.push()
FunctionPush ==
    /\ AtScope("function")
    /\ LET function == scope.scope.functions[Len(scope.functions_out) + 1][2]
       IN  /\ fn_act' = Some(FunctionActivation(function, rename_table))
           /\ rename_table' = push(rename_table,
                  [program |-> scope.scope.program_id,
                   function |-> function.identifier, phase |-> "main"])
    /\ UNCHANGED <<input, call_stack, scope_act, block_stack, counter, output,
                   panic>>

\* one turn of: for input_variable in function.input.iter()
FunctionInput ==
    /\ InFunction({"inputs"})
    /\ fn.k < Len(fn.function.input)
    /\ rename_table' = register_input(rename_table, fn.function.input[fn.k + 1])
    /\ SetFn([fn EXCEPT !.k = @ + 1])
    /\ UNCHANGED <<input, call_stack, scope_act, block_stack, counter, output,
                   panic>>

\* the loop ends; self.consume_block(function.block) is entered
FunctionBlockCall ==
    /\ InFunction({"inputs"})
    /\ fn.k = Len(fn.function.input)
    /\ SetFn([fn EXCEPT !.pc = "block"])
    /\ block_stack' = <<BlockActivation(fn.function.block.statements, None)>>
    /\ UNCHANGED <<input, call_stack, scope_act, rename_table, counter, output,
                   panic>>

BlockDone == Len(block_stack) = 1 /\ blk.todo = <<>>

\* Block { span: function.block.span, statements: <the returned statements> }
FunctionBlockReturn ==
    /\ InFunction({"block"})
    /\ BlockDone
    /\ SetFn([fn EXCEPT !.pc = "pop",
                        !.block = Some([span |-> fn.function.block.span,
                                        statements |-> blk.out])])
    /\ block_stack' = <<>>
    /\ UNCHANGED <<input, call_stack, scope_act, rename_table, counter, output,
                   panic>>

\* Variant: the main frame is not popped.
FunctionPop_skipped ==
    /\ InFunction({"pop"})
    /\ rename_table' = rename_table
    /\ SetFn([fn EXCEPT !.pc = IF fn.function.finalize = None THEN "build"
                                ELSE "fin_push"])
    /\ UNCHANGED <<input, call_stack, scope_act, block_stack, counter, output,
                   panic>>

\* self.pop(), and function.finalize.map(..) taking its branch
FunctionPop ==
    /\ InFunction({"pop"})
    /\ rename_table' = pop(rename_table)
    /\ SetFn([fn EXCEPT !.pc = IF fn.function.finalize = None THEN "build"
                                ELSE "fin_push"])
    /\ UNCHANGED <<input, call_stack, scope_act, block_stack, counter, output,
                   panic>>

\* self.push() of the finalize closure
FinalizePush ==
    /\ InFunction({"fin_push"})
    /\ rename_table' = push(rename_table, Scope("finalize"))
    /\ SetFn([fn EXCEPT !.pc = "fin_inputs", !.k = 0])
    /\ UNCHANGED <<input, call_stack, scope_act, block_stack, counter, output,
                   panic>>

\* one turn of: for input_variable in finalize.input.iter()
FinalizeInput ==
    /\ InFunction({"fin_inputs"})
    /\ fn.k < Len(fn.function.finalize[1].input)
    /\ rename_table' = register_input(rename_table,
                                      fn.function.finalize[1].input[fn.k + 1])
    /\ SetFn([fn EXCEPT !.k = @ + 1])
    /\ UNCHANGED <<input, call_stack, scope_act, block_stack, counter, output,
                   panic>>

\* the loop ends; self.consume_block(finalize.block) is entered
FinalizeBlockCall ==
    /\ InFunction({"fin_inputs"})
    /\ fn.k = Len(fn.function.finalize[1].input)
    /\ SetFn([fn EXCEPT !.pc = "fin_block"])
    /\ block_stack' =
          <<BlockActivation(fn.function.finalize[1].block.statements, None)>>
    /\ UNCHANGED <<input, call_stack, scope_act, rename_table, counter, output,
                   panic>>

\* Block { span: finalize.block.span, statements: <the returned statements> }
FinalizeBlockReturn ==
    /\ InFunction({"fin_block"})
    /\ BlockDone
    /\ SetFn([fn EXCEPT !.pc = "fin_pop",
                        !.finalize_block =
                            Some([span |-> fn.function.finalize[1].block.span,
                                  statements |-> blk.out])])
    /\ block_stack' = <<>>
    /\ UNCHANGED <<input, call_stack, scope_act, rename_table, counter, output,
                   panic>>

\* Variant: the finalize frame is not popped.
FinalizePop_skipped ==
    /\ InFunction({"fin_pop"})
    /\ rename_table' = rename_table
    /\ SetFn([fn EXCEPT !.pc = "build"])
    /\ UNCHANGED <<input, call_stack, scope_act, block_stack, counter, output,
                   panic>>

\* self.pop() of the finalize closure
FinalizePop ==
    /\ InFunction({"fin_pop"})
    /\ rename_table' = pop(rename_table)
    /\ SetFn([fn EXCEPT !.pc = "build"])
    /\ UNCHANGED <<input, call_stack, scope_act, block_stack, counter, output,
                   panic>>

FinalizeOutput(finalize, block) ==
    [identifier |-> finalize.identifier,
     input |-> finalize.input,
     output |-> finalize.output,
     output_type |-> finalize.output_type,
     block |-> block,
     span |-> finalize.span]

\* Variant: the function takes its block's span.
FunctionOutput_block_span(function, block, finalize) ==
    [annotations |-> function.annotations,
     call_type |-> function.call_type,
     identifier |-> function.identifier,
     input |-> function.input,
     output |-> function.output,
     output_type |-> function.output_type,
     block |-> block,
     finalize |-> finalize,
     span |-> function.block.span]

FunctionOutput(function, block, finalize) ==
    [annotations |-> function.annotations,
     call_type |-> function.call_type,
     identifier |-> function.identifier,
     input |-> function.input,
     output |-> function.output,
     output_type |-> function.output_type,
     block |-> block,
     finalize |-> finalize,
     span |-> function.span]

\* Finalize { .. } and Function { .. } are built; the function is returned
\* to consume_program_scope
FunctionReturn ==
    /\ InFunction({"build"})
    /\ LET name == scope.scope.functions[Len(scope.functions_out) + 1][1]
           finalize ==
               IF fn.function.finalize = None THEN None
               ELSE Some(FinalizeOutput(fn.function.finalize[1],
                                        fn.finalize_block[1]))
           function == FunctionOutput(fn.function, fn.block[1], finalize)
       IN  scope_act' = Some([scope EXCEPT !.functions_out =
                                Append(@, <<name, function>>)])
    /\ fn_act' = None
    /\ UNCHANGED <<input, call_stack, block_stack, rename_table, counter,
                   output, panic>>

(***************************************************************************)
(* consume_block, by its contract: a defining statement reads its value    *)
(* through the table, takes a fresh name and registers it; a conditional   *)
(* brackets the renaming of its body with a push and a pop.                *)
(***************************************************************************)
Phase == IF fn.pc = "block" THEN "main" ELSE "finalize"

InBlock(kind) ==
    /\ InFunction({"block", "fin_block"})
    /\ blk.todo # <<>>
    /\ Head(blk.todo).kind = kind

SetBlk(b) == block_stack' = [block_stack EXCEPT ![Len(block_stack)] = b]

\* let place = value;
BlockAssign ==
    /\ InBlock("assign")
    /\ LET s == Head(blk.todo)
           value == lookup(rename_table, s.value)
           place == unique_symbol(s.place, counter)
       IN  IF value = None
           THEN Unwind(UnresolvedSymbol(s.value, fn.function.identifier))
           ELSE /\ rename_table' = update(rename_table, s.place, place)
                /\ counter' = counter + 1
                /\ SetBlk([blk EXCEPT !.todo = Tail(@),
                                      !.out = Append(@, [s EXCEPT
                                                  !.place = place,
                                                  !.value = value[1]])])
                /\ UNCHANGED <<input, call_stack, scope_act, fn_act, output,
                               panic>>

\* if value { then }: the body's scope is entered
BlockConditionalEnter ==
    /\ InBlock("conditional")
    /\ LET s == Head(blk.todo)
           value == lookup(rename_table, s.value)
       IN  IF value = None
           THEN Unwind(UnresolvedSymbol(s.value, fn.function.identifier))
           ELSE /\ rename_table' = push(rename_table, Scope(Phase))
                /\ block_stack' = Append(block_stack,
                                         BlockActivation(s.then, value))
                /\ UNCHANGED <<input, call_stack, scope_act, fn_act, counter,
                               output, panic>>

\* the body's scope is exited; the conditional is rebuilt around it
BlockConditionalExit ==
    /\ InFunction({"block", "fin_block"})
    /\ Len(block_stack) > 1
    /\ blk.todo = <<>>
    /\ rename_table' = pop(rename_table)
    /\ LET d == Len(block_stack) - 1
           outer == block_stack[d]
           s == Head(outer.todo)
       IN  block_stack' = [Front(block_stack) EXCEPT ![d] =
               [outer EXCEPT !.todo = Tail(@),
                             !.out = Append(@, [s EXCEPT
                                         !.value = blk.value[1],
                                         !.then = blk.out])]]
    /\ UNCHANGED <<input, call_stack, scope_act, fn_act, counter, output,
                   panic>>

(***************************************************************************)
(* The enumerated inputs: trees as the type checker passes them on         *)
(* (member names and input names unique, every read variable declared).    *)
(***************************************************************************)
MemberNames == {"owner", "gates", "balance", "data", "x"}
VarNames == {"x", "y", "z"}

InjectiveSeqs(S, n) ==
    {s \in UNION {[1..m -> S] : m \in 0..n} :
        \A i, j \in 1..Len(s) : i # j => s[i] # s[j]}

MemberType(name) ==
    IF name = "owner" THEN "address"
    ELSE IF name = "balance" THEN "field" ELSE "u64"

MembersOf(names) ==
    [i \in 1..Len(names) |-> [identifier |-> names[i],
                              type_ |-> MemberType(names[i])]]

StructOf(name, names, is_record) ==
    [identifier |-> name, members |-> MembersOf(names),
     is_record |-> is_record, span |-> "span:" \o name]

Structs ==
    {StructOf("S", names, is_record) :
        names \in InjectiveSeqs(MemberNames, MaxMembers), is_record \in BOOLEAN}

Token == StructOf("Token", <<"balance", "gates", "data", "owner">>, TRUE)
Credits == StructOf("Credits", <<"gates", "owner", "x">>, TRUE)
Point == StructOf("Point", <<"x", "owner", "gates">>, FALSE)

Assign(place, value) ==
    [kind |-> "assign", place |-> place, value |-> value, then |-> <<>>]
Conditional(value, then) ==
    [kind |-> "conditional", place |-> "", value |-> value, then |-> then]

InputLists ==
    {[i \in 1..Len(names) |-> [identifier |-> names[i], type_ |-> "u64"]] :
        names \in InjectiveSeqs(VarNames, MaxInputs)}

\* The bodies over the inputs `ins`: empty; straight-line, redefining the
\* first input; with a conditional that redefines it in its own scope.
Bodies(ins) ==
    IF ins = <<>> THEN {<<>>}
    ELSE LET v == ins[1].identifier
         IN  {<<>>,
              <<Assign("t", v), Assign(v, "t")>>,
              <<Assign("t", v),
                Conditional("t", <<Assign(v, "t"), Assign("u", v)>>),
                Assign("w", v)>>}

Finalizes(name) ==
    {[identifier |-> name, input |-> ins, output |-> <<"u64">>,
      output_type |-> "u64",
      block |-> [span |-> "span:" \o name \o ".finalize.block",
                 statements |-> body],
      span |-> "span:" \o name \o ".finalize"] :
        <<ins, body>> \in UNION {{<<i, b>> : b \in Bodies(i)} : i \in InputLists}}

Functions(name) ==
    {[annotations |-> <<"@program">>, call_type |-> "Transition",
      identifier |-> name, input |-> ins, output |-> <<"u64">>,
      output_type |-> "u64",
      block |-> [span |-> "span:" \o name \o ".block", statements |-> body],
      finalize |-> finalize, span |-> "span:" \o name] :
        <<ins, body>> \in UNION {{<<i, b>> : b \in Bodies(i)} : i \in InputLists},
        finalize \in {None} \cup {Some(f) : f \in Finalizes(name)}}

\* g(x, y) with a conditional in both phases; both phases declare x.
G ==
    LET ins == <<[identifier |-> "x", type_ |-> "u64"],
                 [identifier |-> "y", type_ |-> "u64"]>>
        body == <<Assign("t", "x"),
                  Conditional("t", <<Assign("x", "t"), Assign("u", "x")>>),
                  Assign("w", "x")>>
    IN  [annotations |-> <<>>, call_type |-> "Standard", identifier |-> "g",
         input |-> ins, output |-> <<"u64">>, output_type |-> "u64",
         block |-> [span |-> "span:g.block", statements |-> body],
         finalize |-> Some([identifier |-> "g", input |-> <<ins[1]>>,
                            output |-> <<>>, output_type |-> "unit",
                            block |-> [span |-> "span:g.finalize.block",
                                       statements |-> body],
                            span |-> "span:g.finalize"]),
         span |-> "span:g"]

Keyed(items) == [i \in 1..Len(items) |-> <<items[i].identifier, items[i]>>]

ScopeOf(id, structs, functions) ==
    [program_id |-> id, structs |-> Keyed(structs),
     mappings |-> <<"mapping:" \o id>>, functions |-> Keyed(functions),
     span |-> "span:" \o id]

ProgramOf(imports, scopes) ==
    [imports |-> imports,
     program_scopes |-> [i \in 1..Len(scopes) |-> <<scopes[i].program_id, scopes[i]>>]]

\* The program shapes a function f is placed in.
Programs(f) ==
    LET lib == ProgramOf(<<>>, <<ScopeOf("lib.aleo", <<Credits>>, <<f>>)>>)
        leaf == ProgramOf(<<>>, <<ScopeOf("leaf.aleo", <<Point>>, <<G>>)>>)
        mid == ProgramOf(<<<<"leaf", leaf>>>>,
                         <<ScopeOf("mid.aleo", <<>>, <<f, G>>)>>)
    IN  {ProgramOf(<<>>, <<ScopeOf("main.aleo", <<Token, Point>>, <<f, G>>)>>),
         ProgramOf(<<<<"lib", lib>>>>,
                   <<ScopeOf("main.aleo", <<Token>>, <<G, f>>)>>),
         ProgramOf(<<<<"mid", mid>>, <<"lib", lib>>>>,
                   <<ScopeOf("main.aleo", <<>>, <<f>>),
                     ScopeOf("more.aleo", <<Credits>>, <<G>>)>>)}

InputPrograms == UNION {Programs(f) : f \in Functions("f")}

\* One scope holding a well-formed record and any struct at all.
StructPrograms ==
    {ProgramOf(<<>>, <<ScopeOf("main.aleo", <<Token, s>>, <<>>)>>) : s \in Structs}

(***************************************************************************)
(* The pass: consume_program(input) has been called on a new               *)
(* StaticSingleAssigner.                                                   *)
(***************************************************************************)
Start(program) ==
    /\ input = program
    /\ call_stack = <<ProgramActivation(program, <<>>)>>
    /\ scope_act = None
    /\ fn_act = None
    /\ block_stack = <<>>
    /\ rename_table = <<>>
    /\ counter = 0
    /\ output = None
    /\ panic = None

Init == \E program \in InputPrograms : Start(program)

Next ==
    \/ ProgramImport
    \/ ProgramScopeCall
    \/ ProgramReturn
    \/ ScopeStruct
    \/ ProgramScopeReturn
    \/ FunctionPush
    \/ FunctionInput
    \/ FunctionBlockCall
    \/ FunctionBlockReturn
    \/ FunctionPop
    \/ FinalizePush
    \/ FinalizeInput
    \/ FinalizeBlockCall
    \/ FinalizeBlockReturn
    \/ FinalizePop
    \/ FunctionReturn
    \/ BlockAssign
    \/ BlockConditionalEnter
    \/ BlockConditionalExit

Spec == Init /\ [][Next]_vars

\* consume_struct on any struct: the pass on the programs of StructPrograms.
InitStruct == \E program \in StructPrograms : Start(program)

NextStruct ==
    \/ ProgramScopeCall
    \/ ScopeStruct
    \/ ProgramScopeReturn
    \/ ProgramReturn

SpecStruct == InitStruct /\ [][NextStruct]_vars

(***************************************************************************)
(* The properties.                                                         *)
(***************************************************************************)
Reserved == {"owner", "gates"}

MemberIds(s) == {s.members[i].identifier : i \in 1..Len(s.members)}

HasReserved(s) == Reserved \subseteq MemberIds(s)

MemberNamed(s, name) ==
    s.members[CHOOSE i \in 1..Len(s.members) : s.members[i].identifier = name]

NotReserved(member) == member.identifier \notin Reserved

\* (struct given to consume_struct, struct it returned), for the structs of
\* the scope being consumed.
StructPairs ==
    IF scope_act = None THEN {}
    ELSE {<<scope.scope.structs[i][2], scope.structs_out[i][2]>> :
            i \in 1..Len(scope.structs_out)}

RECURSIVE AllStructs(_)
AllStructs(program) ==
    UNION {{program.program_scopes[i][2].structs[j][2] :
              j \in 1..Len(program.program_scopes[i][2].structs)} :
            i \in 1..Len(program.program_scopes)}
    \cup UNION {AllStructs(program.imports[i][2]) :
                  i \in 1..Len(program.imports)}

InputIds(ins) == {ins[i].identifier : i \in 1..Len(ins)}

RECURSIVE Places(_)
Places(statements) ==
    IF statements = <<>> THEN {}
    ELSE (IF Head(statements).kind = "assign" THEN {Head(statements).place}
          ELSE Places(Head(statements).then))
         \cup Places(Tail(statements))

Symbols == VarNames \cup {"t", "u", "w"}

Resolvable == {s \in Symbols : lookup(rename_table, s) # None}

MainPcs == {"inputs", "block", "pop"}
FinalizePcs == {"fin_inputs", "fin_block", "fin_pop"}

\* C1: for a record with owner and gates among uniquely named members,
\* consume_struct returns [owner, gates, the other members in the order they
\* were declared in].
C1_RecordKeepsDeclaredOrder ==
    \A pair \in StructPairs :
        pair[1].is_record /\ HasReserved(pair[1]) =>
            pair[2].members =
                <<MemberNamed(pair[1], "owner"), MemberNamed(pair[1], "gates")>>
                \o SelectSeq(pair[1].members, NotReserved)

\* C2: for a record with owner and gates, wherever declared, the returned
\* struct has owner at position 0 and gates at position 1 and as many
\* members as the input.
C2_ReservedFieldsLead ==
    \A pair \in StructPairs :
        pair[1].is_record /\ HasReserved(pair[1]) =>
            /\ Len(pair[2].members) = Len(pair[1].members)
            /\ pair[2].members[1] = MemberNamed(pair[1], "owner")
            /\ pair[2].members[2] = MemberNamed(pair[1], "gates")

C2_Witness ==
    \E pair \in StructPairs :
        /\ pair[1].is_record
        /\ Len(pair[1].members) = 4
        /\ pair[1].members[3].identifier = "gates"
        /\ pair[1].members[4].identifier = "owner"
        /\ pair[2].members[1].identifier = "owner"

\* C6: a record without owner or without gates ends the pass with a
\* diagnostic that names the record, and no Program is returned.
C6_MissingFieldNamesRecord ==
    panic # None =>
        /\ output = None
        /\ \E s \in AllStructs(input) :
              /\ s.is_record
              /\ ~HasReserved(s)
              /\ s.identifier \in panic[1].symbols

\* C7: a struct that is no record is returned equal to the struct given,
\* whatever its members, and the step that consumes a struct leaves the
\* rename table as it is.
C7_PlainStructUnchanged ==
    /\ [](\A pair \in StructPairs : ~pair[1].is_record => pair[2] = pair[1])
    /\ [][ScopeStruct => rename_table' = rename_table]_vars

C7_Witness ==
    \E pair \in StructPairs :
        /\ ~pair[1].is_record
        /\ Len(pair[1].members) = 4
        /\ pair[1].members[2].identifier = "gates"
        /\ pair[1].members[4].identifier = "owner"
        /\ pair[2] = pair[1]

\* C3: while the finalize body of a function is renamed, every frame of the
\* table was pushed for that finalize block and only symbols the finalize
\* block declares resolve; while a main body is renamed, the same with main
\* for finalize; and the finalize frame is pushed on the table as it was
\* before the function's main frame was pushed.
C3_PhasesIsolated ==
    fn_act # None =>
        /\ fn.pc \in MainPcs =>
              /\ \A i \in 1..Len(rename_table) :
                    rename_table[i].scope = Scope("main")
              /\ Resolvable \subseteq
                    InputIds(fn.function.input)
                    \cup Places(fn.function.block.statements)
        /\ fn.pc \in FinalizePcs =>
              /\ \A i \in 1..Len(rename_table) :
                    rename_table[i].scope = Scope("finalize")
              /\ Resolvable \subseteq
                    InputIds(fn.function.finalize[1].input)
                    \cup Places(fn.function.finalize[1].block.statements)
        /\ fn.pc = "fin_push" => rename_table = fn.entry_table

\* g's finalize body inside its conditional: y, an input of the main block
\* only, does not resolve; x, declared by both, does.
C3_Witness ==
    /\ fn_act # None
    /\ fn.function = G
    /\ fn.pc = "fin_block"
    /\ Len(block_stack) = 2
    /\ blk.out # <<>>
    /\ "y" \notin Resolvable
    /\ "x" \in Resolvable

\* C4: while a function is renamed, every frame of the table was pushed for
\* the program that function belongs to, and whenever consume_program is
\* between two scopes (so also when an import returns and when the importer
\* starts on its own scopes) the table is as it was when that
\* consume_program was entered, the entry of an import being the state its
\* importer left.
C4_ImportsIsolated ==
    /\ fn_act # None =>
          \A i \in 1..Len(rename_table) :
              rename_table[i].scope.program = scope.scope.program_id
    /\ call_stack # <<>> /\ scope_act = None =>
          rename_table = top.entry_table
    /\ \A i \in 2..Len(call_stack) :
          call_stack[i].entry_table = call_stack[i - 1].entry_table

\* The importer renames a body after two imports, one of them with an
\* import of its own, were processed with the same table.
C4_Witness ==
    /\ Len(call_stack) = 1
    /\ Len(top.imports_out) = 2
    /\ fn_act # None
    /\ fn.pc = "block"
    /\ blk.out # <<>>
    /\ counter > 4
    /\ rename_table[1].mapping # {}

\* C5: the depth of the table is the depth at the call of consume_function
\* plus one inside a phase (plus the open conditionals inside a body), the
\* frames below are those of the call, and the table is back to that of the
\* call between the phases and when the function is built; outside
\* consume_function the table is the empty one the pass started with.
C5_ScopeStackBalanced ==
    /\ fn_act = None => rename_table = <<>>
    /\ fn_act # None =>
          /\ Len(rename_table) >= Len(fn.entry_table)
          /\ SubSeq(rename_table, 1, Len(fn.entry_table)) = fn.entry_table
          /\ fn.pc \in {"inputs", "pop", "fin_inputs", "fin_pop"} =>
                Len(rename_table) = Len(fn.entry_table) + 1
          /\ fn.pc \in {"block", "fin_block"} =>
                Len(rename_table) = Len(fn.entry_table) + Len(block_stack)
          /\ fn.pc \in {"fin_push", "build"} => rename_table = fn.entry_table

\* g is built: both phases pushed and popped a frame, and each body one more
\* for its conditional.
C5_Witness ==
    /\ fn_act # None
    /\ fn.function = G
    /\ fn.pc = "build"
    /\ fn.finalize_block # None
    /\ rename_table = fn.entry_table

SameExceptBlock(a, b) == [a EXCEPT !.block = b.block] = b

SameFinalize(a, b) ==
    /\ (a = None) = (b = None)
    /\ a # None /\ b # None =>
          /\ SameExceptBlock(a[1], b[1])
          /\ a[1].block.span = b[1].block.span

SameFunction(a, b) ==
    /\ a.annotations = b.annotations
    /\ a.call_type = b.call_type
    /\ a.identifier = b.identifier
    /\ a.input = b.input
    /\ a.output = b.output
    /\ a.output_type = b.output_type
    /\ a.span = b.span
    /\ a.block.span = b.block.span
    /\ SameFinalize(a.finalize, b.finalize)

SameStruct(a, b) ==
    /\ [a EXCEPT !.members = b.members] = b
    /\ Len(a.members) = Len(b.members)
    /\ {a.members[i] : i \in 1..Len(a.members)}
          = {b.members[i] : i \in 1..Len(b.members)}

SameScope(a, b) ==
    /\ a.program_id = b.program_id
    /\ a.mappings = b.mappings
    /\ a.span = b.span
    /\ Len(a.structs) = Len(b.structs)
    /\ Len(a.functions) = Len(b.functions)
    /\ \A i \in 1..Len(a.structs) :
          /\ a.structs[i][1] = b.structs[i][1]
          /\ SameStruct(a.structs[i][2], b.structs[i][2])
    /\ \A i \in 1..Len(a.functions) :
          /\ a.functions[i][1] = b.functions[i][1]
          /\ SameFunction(a.functions[i][2], b.functions[i][2])

RECURSIVE SameProgram(_, _)
SameProgram(a, b) ==
    /\ Len(a.imports) = Len(b.imports)
    /\ Len(a.program_scopes) = Len(b.program_scopes)
    /\ \A i \in 1..Len(a.imports) :
          /\ a.imports[i][1] = b.imports[i][1]
          /\ SameProgram(a.imports[i][2], b.imports[i][2])
    /\ \A i \in 1..Len(a.program_scopes) :
          /\ a.program_scopes[i][1] = b.program_scopes[i][1]
          /\ SameScope(a.program_scopes[i][2], b.program_scopes[i][2])

\* C8: every function returned has the annotations, call type, identifier,
\* inputs, output, output type, span and block span of the function given,
\* and a finalize exactly when that one has, equal but for its block's
\* statements; the Program returned has, scope by scope and import by
\* import, the program_id, mappings and span given and the same struct and
\* function keys in the same order.
C8_OtherFieldsCopied ==
    /\ scope_act # None =>
          \A i \in 1..Len(scope.functions_out) :
              /\ scope.functions_out[i][1] = scope.scope.functions[i][1]
              /\ SameFunction(scope.scope.functions[i][2],
                              scope.functions_out[i][2])
    /\ output # None => SameProgram(input, output[1])

\* A program with imports was returned, rebuilt: blocks and a record differ.
C8_Witness ==
    /\ output # None
    /\ Len(input.imports) = 2
    /\ output[1] # input
    /\ output[1].program_scopes[2][2].structs # input.program_scopes[2][2].structs
    /\ output[1].program_scopes[1][2].functions[1][2].finalize # None

\* C9: a consume_program that waits for an import has consumed none of its
\* scopes; one that has begun on its scopes has all its imports returned, in
\* the order of the map, each with all its own imports and scopes; and in
\* the finalize phase of a function the main block is built and the finalize
\* frame is pushed on the table of the call.
C9_ImportsBeforeScopes ==
    /\ \A i \in 1..Len(call_stack) :
          LET a == call_stack[i]
          IN  /\ i < Len(call_stack) =>
                    /\ a.scopes_out = <<>>
                    /\ Len(a.imports_out) < Len(a.program.imports)
              /\ i = Len(call_stack) /\ (scope_act # None \/ a.scopes_out # <<>>) =>
                    Len(a.imports_out) = Len(a.program.imports)
              /\ Len(a.imports_out) <= Len(a.program.imports)
              /\ \A k \in 1..Len(a.imports_out) :
                    /\ a.imports_out[k][1] = a.program.imports[k][1]
                    /\ SameProgram(a.program.imports[k][2], a.imports_out[k][2])
    /\ fn_act # None /\ fn.pc \in FinalizePcs \cup {"fin_push"} =>
          /\ fn.block # None
          /\ Len(fn.block[1].statements) = Len(fn.function.block.statements)
    /\ fn_act # None /\ fn.pc = "fin_push" => rename_table = fn.entry_table

\* The importer consumes its first struct or function after both imports.
C9_Witness ==
    /\ Len(call_stack) = 1
    /\ scope_act # None
    /\ top.scopes_out = <<>>
    /\ Len(top.program.imports) = 2
    /\ Len(top.imports_out[1][2].imports) = 1
    /\ fn_act # None

AtBodyEntry(pc, block) ==
    /\ fn_act # None
    /\ fn.pc = pc
    /\ block_stack = <<BlockActivation(block.statements, None)>>

InputsRegistered(ins) ==
    /\ rename_table = Append(fn.entry_table, Last(rename_table))
    /\ Last(rename_table).mapping = {<<n, n>> : n \in InputIds(ins)}
    /\ \A n \in InputIds(ins) : lookup(rename_table, n) = Some(n)

\* C10: when the renaming of a main body begins, the table is the table of
\* the call plus one frame whose bindings are name -> name for the inputs of
\* the function and no other, so each input resolves to its name; the same
\* for a finalize body and the inputs of the finalize; a function is
\* returned with the input lists it was given.
C10_InputsRegistered ==
    /\ fn_act # None /\ AtBodyEntry("block", fn.function.block) =>
          InputsRegistered(fn.function.input)
    /\ fn_act # None /\ AtBodyEntry("fin_block", fn.function.finalize[1].block) =>
          InputsRegistered(fn.function.finalize[1].input)
    /\ scope_act # None =>
          \A i \in 1..Len(scope.functions_out) :
              LET a == scope.scope.functions[i][2]
                  b == scope.functions_out[i][2]
              IN  /\ b.input = a.input
                  /\ a.finalize # None => b.finalize[1].input = a.finalize[1].input

\* A finalize body is entered with two inputs after a main body that had
\* other inputs and redefined one of them.
C10_Witness ==
    /\ fn_act # None
    /\ AtBodyEntry("fin_block", fn.function.finalize[1].block)
    /\ fn.function.finalize[1].block.statements # <<>>
    /\ Len(fn.function.finalize[1].input) = 2
    /\ InputIds(fn.function.input) # InputIds(fn.function.finalize[1].input)
    /\ Len(fn.block[1].statements) = 3
    /\ Cardinality(Last(rename_table).mapping) = 2
====
